---- MODULE Spec2Model ----
(***************************************************************************)
(* Model of csvquery2.py: a Streamlit page that ingests an uploaded CSV or *)
(* Excel file into a SQLite store and forwards questions to a SQL agent.   *)
(*                                                                         *)
(* Streamlit executes the whole script once per user interaction; the      *)
(* widgets (file uploader, buttons, text input) supply that run's inputs   *)
(* and st.session_state carries values from one run to the next.  One      *)
(* action of the model is one script run.                                  *)
(***************************************************************************)
EXTENDS Integers, Sequences, FiniteSets, TLC

(***************************************************************************)
(* Bounds of the model.                                                    *)
(***************************************************************************)
\* Questions processed per session (question_counter is never reset).
MaxQuestions == 2

(***************************************************************************)
(* Python's None.  Every session value is a record, so None is one too.    *)
(***************************************************************************)
None == [none |-> TRUE]

(***************************************************************************)
(* Strings: str.lower, str.replace, os.path.basename, os.path.splitext.    *)
(***************************************************************************)
Char(s, i) == SubSeq(s, i, i)

UpperCase == "ABCDEFGHIJKLMNOPQRSTUVWXYZ"
LowerCase == "abcdefghijklmnopqrstuvwxyz"

\* One character of str.lower().
LowerChar(c) ==
    IF \E i \in 1..Len(UpperCase) : Char(UpperCase, i) = c
    THEN Char(LowerCase, CHOOSE i \in 1..Len(UpperCase) : Char(UpperCase, i) = c)
    ELSE c

RECURSIVE Lower(_)
Lower(s) ==
    IF Len(s) = 0 THEN ""
    ELSE LowerChar(Char(s, 1)) \o Lower(SubSeq(s, 2, Len(s)))

\* s.replace(old, new) for a one-character old.
RECURSIVE Replace(_, _, _)
Replace(s, old, new) ==
    IF Len(s) = 0 THEN ""
    ELSE (IF Char(s, 1) = old THEN new ELSE Char(s, 1))
         \o Replace(SubSeq(s, 2, Len(s)), old, new)

\* Index of the last occurrence of character c in s, 0 when there is none.
LastIndex(s, c) ==
    LET hits == {i \in 1..Len(s) : Char(s, i) = c}
    IN  IF hits = {} THEN 0 ELSE CHOOSE i \in hits : \A j \in hits : j <= i

\* os.path.basename: what follows the last "/".
Basename(p) == SubSeq(p, LastIndex(p, "/") + 1, Len(p))

\* os.path.splitext: the extension starts at the last "." of the last path
\* component, unless only dots precede it in that component.
SplitExt(p) ==
    LET sep == LastIndex(p, "/")
        dot == LastIndex(p, ".")
    IN  IF dot > sep /\ \E i \in (sep + 1)..(dot - 1) : Char(p, i) # "."
        THEN <<SubSeq(p, 1, dot - 1), SubSeq(p, dot, Len(p))>>
        ELSE <<p, "">>

(***************************************************************************)
(* Uploaded files.  data is what the bytes hold: the format they are       *)
(* written in, whether they parse, the header row and the data rows.       *)
(***************************************************************************)
Sales   == [format |-> "csv", malformed |-> FALSE,
            columns |-> <<"region", "amount">>,
            rows |-> <<<<"north", "10">>, <<"south", "7">>>>]
Stock   == [format |-> "excel", malformed |-> FALSE,
            columns |-> <<"sku", "qty", "bin">>,
            rows |-> <<<<"a1", "5", "x">>>>]
Broken  == [format |-> "csv", malformed |-> TRUE,
            columns |-> <<>>, rows |-> <<>>]
Notes   == [format |-> "csv", malformed |-> FALSE,
            columns |-> <<"note">>, rows |-> <<<<"hello">>>>]

\* The files the user may put in the uploader (uploaded_file.name and
\* uploaded_file.getvalue()).
Files ==
    { [name |-> "sales.csv",        data |-> Sales],
      [name |-> "Q1 Stock-EU.XLSX", data |-> Stock],
      [name |-> "stock.xls",        data |-> Stock],
      [name |-> "bad.csv",          data |-> Broken],
      [name |-> "notes.txt",        data |-> Notes] }

\* tempfile.NamedTemporaryFile: "tmp" and eight random characters of
\* [a-z0-9_] in the temporary directory, followed by the suffix.  The file
\* is unlinked at the end of the run, so a name may come back.
TmpDir == "/tmp"
TmpNames == {"tmpk3x_a9q2", "tmp0vz7m_d1"}
TmpPath(tmp, suffix) == TmpDir \o "/" \o tmp \o suffix

(***************************************************************************)
(* Exceptions.  Every class below derives from Exception.                  *)
(***************************************************************************)
ExceptionSubclasses ==
    {"ValueError", "ParserError", "OperationalError", "OpenAIError",
     "APIConnectionError", "KeyError", "IndexError"}

Exc(class, msg) == [class |-> class, msg |-> msg]

\* A call's result: it returns a value or raises an exception.
Return(v) == [raised |-> FALSE, value |-> v]
Raise(e)  == [raised |-> TRUE, exc |-> e]

(***************************************************************************)
(* create_db_from_file                                                     *)
(***************************************************************************)
\* The table name when none is given: the file's base name lower-cased, with
\* spaces and hyphens replaced by underscores.
TableName(filename) == Replace(Replace(Lower(filename), " ", "_"), "-", "_")

\* pd.read_csv / pd.read_excel: the DataFrame of the header and the rows, or
\* an exception when the bytes do not parse as that format.
DataFrame(data) == [columns |-> data.columns, rows |-> data.rows]

read_csv(data) ==
    IF data.format = "csv" /\ ~data.malformed
    THEN Return(DataFrame(data))
    ELSE Raise(Exc("ParserError", "Error tokenizing data"))

read_excel(data) ==
    IF data.format = "excel" /\ ~data.malformed
    THEN Return(DataFrame(data))
    ELSE Raise(Exc("ValueError", "Excel file format cannot be determined"))

\* The if / elif / else on the lower-cased extension.  The variant has no
\* else branch that raises: whatever is not Excel is read as CSV.
ReadFileMutLenient(file_extension, data) ==
    IF file_extension \in {".xlsx", ".xls"} THEN read_excel(data)
    ELSE read_csv(data)
ReadFile(file_extension, data) ==
    IF file_extension = ".csv" THEN read_csv(data)
    ELSE IF file_extension \in {".xlsx", ".xls"} THEN read_excel(data)
    ELSE Raise(Exc("ValueError",
                   "Unsupported file format: " \o file_extension))

\* The tables of store file db_filename; a file that does not exist yet
\* holds none.
EmptyTables == [t \in {} |-> None]
TablesOf(sts, db_filename) ==
    IF db_filename \in DOMAIN sts THEN sts[db_filename] ELSE EmptyTables

WithTable(tables, table_name, tbl) ==
    [t \in DOMAIN tables \cup {table_name} |->
        IF t = table_name THEN tbl ELSE tables[t]]

WithStore(sts, db_filename, tables) ==
    [f \in DOMAIN sts \cup {db_filename} |->
        IF f = db_filename THEN tables ELSE sts[f]]

\* df.to_sql(table_name, engine, index=False, if_exists='replace') on the
\* tables of one store file.  wout is what the environment lets the write
\* do: "ok", or "raises", the store cannot be opened and nothing is touched.
\* The variants are the same call with if_exists='append' and with
\* index=True.
WriteOutcomes == {"ok", "raises"}

to_sqlMutAppend(df, tables, table_name, wout) ==
    CASE wout = "ok" ->
           Return(WithTable(tables, table_name,
                    IF table_name \in DOMAIN tables
                    THEN [columns |-> df.columns,
                          rows |-> tables[table_name].rows \o df.rows]
                    ELSE df))
      [] wout = "raises" ->
           Raise(Exc("OperationalError", "unable to open database file"))
to_sqlMutIndex(df, tables, table_name, wout) ==
    CASE wout = "ok" ->
           Return(WithTable(tables, table_name,
                    [columns |-> <<"index">> \o df.columns,
                     rows |-> [i \in 1..Len(df.rows) |->
                                  <<ToString(i - 1)>> \o df.rows[i]]]))
      [] wout = "raises" ->
           Raise(Exc("OperationalError", "unable to open database file"))
to_sql(df, tables, table_name, wout) ==
    CASE wout = "ok" ->
           Return(WithTable(tables, table_name, df))
      [] wout = "raises" ->
           Raise(Exc("OperationalError", "unable to open database file"))

\* The store files after to_sql: untouched when it raised.
StoresAfterWrite(sts, db_filename, written) ==
    IF written.raised THEN sts
    ELSE WithStore(sts, db_filename, written.value)

\* Lines 89 to 95 of create_db_from_file: what it derives from file_path.
PathLocals(file_path) ==
    LET filename == SplitExt(Basename(file_path))[1]
    IN  [filename       |-> filename,
         table_name     |-> TableName(filename),
         db_filename    |-> filename \o ".db",
         file_extension |-> Lower(SplitExt(file_path)[2])]

\* The same, tabulated over the temporary paths a run can be given.
TmpPaths == {TmpPath(t, SplitExt(f.name)[2]) : t \in TmpNames, f \in Files}
LocalsAt == [p \in TmpPaths |-> PathLocals(p)]

\* Lines 104 to 108: the engine on db_filename, to_sql, and the result.
\* written is what to_sql did to the tables of the store file; dropped is the
\* table that if_exists='replace' removed, None when there was none.
WriteAndReturn(locals, df, sts, written) ==
    IF written.raised
    THEN [raised |-> TRUE, exc |-> written.exc, stores |-> sts,
          locals |-> locals, dropped |-> None]
    ELSE [raised |-> FALSE,
          db |-> [db_filename |-> locals.db_filename], df |-> df,
          stores |-> StoresAfterWrite(sts, locals.db_filename, written),
          locals |-> locals,
          dropped |-> IF locals.table_name \in DOMAIN TablesOf(sts, locals.db_filename)
                      THEN TablesOf(sts, locals.db_filename)[locals.table_name]
                      ELSE None]

\* Lines 97 to 108: read is what reading the file by its extension gave.
ReadAndWrite(locals, read, sts, wout) ==
    IF read.raised
    THEN [raised |-> TRUE, exc |-> read.exc, stores |-> sts,
          locals |-> locals, dropped |-> None]
    ELSE WriteAndReturn(locals, read.value, sts,
                        to_sql(read.value, TablesOf(sts, locals.db_filename),
                               locals.table_name, wout))

\* create_db_from_file(file_path) with the bytes at file_path and the store
\* files of the working directory.  Returns (db, df) or raises; stores is the
\* working directory afterwards, and the locals are kept for inspection.
create_db_from_file(file_path, data, sts, wout) ==
    ReadAndWrite(LocalsAt[file_path],
                 ReadFile(LocalsAt[file_path].file_extension, data), sts, wout)

(***************************************************************************)
(* initialize_agent: the agent executor over the toolkit of db, or the     *)
(* exception ChatOpenAI raises (no API key).                               *)
(***************************************************************************)
AgentOutcomes == {"ok", "raises"}

initialize_agent(d, aout) ==
    IF aout = "ok"
    THEN Return([db |-> d])
    ELSE Raise(Exc("OpenAIError", "The api_key client option must be set"))

(***************************************************************************)
(* query_agent                                                             *)
(***************************************************************************)
\* What the hosted model makes of one invocation: it answers, the call
\* fails, or the result comes back without a usable last message.
Behaviours == {"answer", "api_error", "no_messages", "empty_messages"}

\* The final message of an agent that answers.
FinalAnswer == "There are 2 rows."

\* agent.invoke({"messages": [{"role": "user", "content": question}]})
Invoke(agent, question, beh) ==
    CASE beh = "answer" ->
           Return([messages |->
                     << [content |-> question],
                        [content |-> FinalAnswer] >>])
      [] beh = "api_error" ->
           Raise(Exc("APIConnectionError", "Connection error."))
      [] beh = "no_messages" ->
           Return([output |-> ""])
      [] beh = "empty_messages" ->
           Return([messages |-> <<>>])

\* result["messages"][-1].content
LastContent(result) ==
    IF "messages" \notin DOMAIN result
    THEN Raise(Exc("KeyError", "'messages'"))
    ELSE IF Len(result.messages) = 0
    THEN Raise(Exc("IndexError", "list index out of range"))
    ELSE Return(result.messages[Len(result.messages)].content)

\* except Exception as e: the classes the handler catches.  The variant
\* is a handler written as "except KeyError".
CaughtMutKeyErrorOnly(exc) == exc.class = "KeyError"
Caught(exc) == exc.class \in ExceptionSubclasses

\* The try block, given what agent.invoke did.
TryBody(result) ==
    IF result.raised THEN result ELSE LastContent(result.value)

\* The except clause, given what the try block did.
Handle(body) ==
    IF body.raised /\ Caught(body.exc)
    THEN Return("Error: " \o body.exc.msg)
    ELSE body

query_agent(agent, question, beh) ==
    Handle(TryBody(Invoke(agent, question, beh)))

(***************************************************************************)
(* The session and the page                                                *)
(***************************************************************************)
VARIABLES
    db,                \* st.session_state.db
    agent,             \* st.session_state.agent
    df,                \* st.session_state.df
    chat_history,      \* st.session_state.chat_history
    question_counter,  \* st.session_state.question_counter
    uploaded_file,     \* the file held by the st.file_uploader widget
    stores,            \* the store files of the working directory
    notice,            \* what the upload block showed in the latest run
    ingest,            \* the latest run's create_db_from_file call
    turn,              \* the latest run's query_agent call
    pc                 \* "rerun" while a run requested by st.rerun() is due

vars == <<db, agent, df, chat_history, question_counter, uploaded_file, stores, notice, ingest, turn, pc>>

Success == [kind |-> "success", text |-> "File uploaded successfully!"]
Info(d) == [kind |-> "info", rows |-> Len(d.rows), columns |-> Len(d.columns)]
Error(e) == [kind |-> "error", text |-> "Error processing file: " \o e.msg]

\* The keys of the three quick-action buttons.  Each sets
\* st.session_state.quick_action, which no line of the script reads: the
\* value is left out of the state, the run the press causes is not.
QuickButtons == {"data_analysis", "ai_powered", "instant_results"}

Questions == {"", "how many rows?"}

\* Session state as the first run leaves it, before any interaction.
Init ==
    /\ db = None
    /\ agent = None
    /\ df = None
    /\ chat_history = <<>>
    /\ question_counter = 0
    /\ uploaded_file = None
    /\ stores = [f \in {} |-> EmptyTables]
    /\ notice = <<>>
    /\ ingest = None
    /\ turn = None
    /\ pc = "idle"

\* tmp_file.name for the suffix os.path.splitext(uploaded_file.name)[1],
\* tabulated over the temporary names and the uploaded names.
TmpFilePath ==
    [t \in TmpNames, n \in {f.name : f \in Files} |-> TmpPath(t, SplitExt(n)[2])]

\* The ingestion call as the session records it.
Call(made) ==
    [raised |-> made.raised, locals |-> made.locals, dropped |-> made.dropped]

\* Lines 194 to 200, once create_db_from_file has returned made and
\* initialize_agent has given built.
AfterBuild(made, built) ==
    IF built.raised
    THEN [db |-> made.db, df |-> made.df, agent |-> agent,
          stores |-> made.stores,
          notice |-> <<Error(built.exc)>>, ingest |-> Call(made)]
    ELSE [db |-> made.db, df |-> made.df, agent |-> built.value,
          stores |-> made.stores,
          notice |-> <<Success, Info(made.df)>>, ingest |-> Call(made)]

\* Lines 193 to 200: the try block and its except clause.
AfterCreate(made, aout) ==
    IF made.raised
    THEN [db |-> db, df |-> df, agent |-> agent, stores |-> made.stores,
          notice |-> <<Error(made.exc)>>, ingest |-> Call(made)]
    ELSE AfterBuild(made, initialize_agent(made.db, aout))

\* "if uploaded_file is not None:" with its try / except / finally.  The
\* result holds the session values, the store files and the messages after
\* the block.
UploadBlock(uf, tmp, wout, aout) ==
    IF uf = None
    THEN [db |-> db, df |-> df, agent |-> agent, stores |-> stores,
          notice |-> <<>>, ingest |-> None]
    ELSE AfterCreate(create_db_from_file(TmpFilePath[tmp, uf.name], uf.data,
                                         stores, wout),
                     aout)

\* The upload block's possible results in one run: the environment picks
\* the temporary file's name and what the store write and the agent
\* construction do.
UploadResults(uf) ==
    {UploadBlock(uf, tmp, wout, aout) :
        tmp \in TmpNames, wout \in WriteOutcomes, aout \in AgentOutcomes}

\* "if ask_button and user_question and st.session_state.agent:" in the
\* branch where st.session_state.db is not None, after upload result up.
Asks(up, button, user_question) ==
    /\ up.db # None
    /\ button = "ask"
    /\ user_question # ""
    /\ up.agent # None

\* One run of the script: uf is the uploader's file, button the button
\* pressed in this run ("" for none), user_question the text input.
ScriptRun(uf, button, user_question) ==
    \E up \in UploadResults(uf) :
        /\ uploaded_file' = uf
        /\ db' = up.db
        /\ df' = up.df
        /\ agent' = up.agent
        /\ stores' = up.stores
        /\ notice' = up.notice
        /\ ingest' = up.ingest
        /\ IF button = "clear"
           THEN /\ chat_history' = <<>>
                /\ question_counter' = question_counter
                /\ turn' = None
                /\ pc' = "rerun"
           ELSE IF Asks(up, button, user_question)
           THEN \E beh \in Behaviours :
                \E answer \in {query_agent(up.agent, user_question, beh)} :
                      /\ turn' = [question |-> user_question, beh |-> beh,
                                  agent |-> up.agent, answer |-> answer]
                      /\ IF answer.raised
                         THEN /\ chat_history' = chat_history
                              /\ question_counter' = question_counter
                              /\ pc' = "idle"
                         ELSE /\ chat_history' =
                                   Append(chat_history,
                                          <<user_question, answer.value>>)
                              /\ question_counter' = question_counter + 1
                              /\ pc' = "rerun"
           ELSE /\ chat_history' = chat_history
                /\ question_counter' = question_counter
                /\ turn' = None
                /\ pc' = "idle"

\* The user puts a file in the uploader.
SelectFile ==
    /\ pc = "idle"
    /\ \E f \in Files : ScriptRun(f, "", "")

\* The user removes the file from the uploader.
RemoveFile ==
    /\ pc = "idle"
    /\ uploaded_file # None
    /\ ScriptRun(None, "", "")

\* One of the three quick-action buttons.
QuickAction ==
    /\ pc = "idle"
    /\ \E b \in QuickButtons : ScriptRun(uploaded_file, b, "")

\* The Clear Conversation button.
ClearConversation ==
    /\ pc = "idle"
    /\ ScriptRun(uploaded_file, "clear", "")

\* The Ask button, with the text input holding user_question.  The previous
\* run drew both only in the branch where st.session_state.db is not None.
Ask ==
    /\ pc = "idle"
    /\ db # None
    /\ question_counter < MaxQuestions
    /\ \E q \in Questions : ScriptRun(uploaded_file, "ask", q)

\* The run st.rerun() asked for: no button is pressed in it.
Rerun ==
    /\ pc = "rerun"
    /\ ScriptRun(uploaded_file, "", "")

Next ==
    \/ Rerun
    \/ Ask
    \/ ClearConversation
    \/ QuickAction
    \/ RemoveFile
    \/ SelectFile

Spec == Init /\ [][Next]_vars

(***************************************************************************)
(* Properties                                                              *)
(***************************************************************************)
Last(seq) == seq[Len(seq)]

\* The latest run called create_db_from_file and it returned.
Ingested == ingest # None /\ ~ingest.raised

\* The table the latest ingestion wrote, in the store file it wrote to.
IngestedTable == stores[ingest.locals.db_filename][ingest.locals.table_name]

\* The upload block of the latest run ended in st.error.
ShowsError(n) == Len(n) = 1 /\ n[1].kind = "error"

\* The answer each behaviour of the hosted model is to end in.
C1_Expected ==
    [answer         |-> "There are 2 rows.",
     api_error      |-> "Error: Connection error.",
     no_messages    |-> "Error: 'messages'",
     empty_messages |-> "Error: list index out of range"]

\* C1: query_agent never raises to its caller.  When agent.invoke raises, or
\* reading the content of the last message of its result raises, the answer
\* is "Error: " followed by the exception's message; otherwise it is the
\* content of the last message.  The answer is what the turn appends.
C1_QueryAgentNeverRaises ==
    turn # None =>
        /\ ~turn.answer.raised
        /\ turn.answer.value = C1_Expected[turn.beh]
        /\ (turn.beh # "answer" => SubSeq(turn.answer.value, 1, 6) = "Error:")
        /\ chat_history # <<>>
        /\ Last(chat_history) = <<turn.question, C1_Expected[turn.beh]>>
C1_Witness ==
    /\ turn # None
    /\ turn.beh = "api_error"
    /\ Last(chat_history)[2] = "Error: Connection error."

\* The allow-list, each uploaded name's lower-cased extension, and the
\* message shown for an extension outside the list.
C2_Supported == {".csv", ".xls", ".xlsx"}
C2_Extension == [n \in {f.name : f \in Files} |-> Lower(SplitExt(n)[2])]
C2_UnsupportedError(n) ==
    [kind |-> "error",
     text |-> "Error processing file: Unsupported file format: "
              \o C2_Extension[n]]

\* C2: a file whose extension, lower-cased, is none of .csv, .xls, .xlsx
\* always fails with the unsupported-format error, and the run leaves db, df
\* and agent as they were and creates or writes no store file.
C2_UnsupportedLeavesSession ==
    [][ (uploaded_file' # None
           /\ C2_Extension[uploaded_file'.name] \notin C2_Supported)
        => /\ notice' = <<C2_UnsupportedError(uploaded_file'.name)>>
           /\ db' = db
           /\ df' = df
           /\ agent' = agent
           /\ stores' = stores ]_vars
C2_Witness ==
    /\ uploaded_file # None
    /\ uploaded_file.name = "notes.txt"
    /\ ShowsError(notice)
    /\ db # None
    /\ agent # None

C4_OneBinding ==
    \/ (db = None /\ df = None /\ agent = None)
    \/ /\ db # None /\ df # None /\ agent # None
       /\ agent.db = db
       /\ db.db_filename \in DOMAIN stores
       /\ \E t \in DOMAIN stores[db.db_filename] : stores[db.db_filename][t] = df

C6_Stem == [n \in {f.name : f \in Files} |-> SplitExt(Basename(n))[1]]

\* C6: the table an upload creates is named by the uploaded file's base name,
\* lower-cased, with spaces and hyphens replaced by underscores, and the
\* store file is keyed by that same base name.
C6_NamedByUploadedFile ==
    Ingested =>
        /\ ingest.locals.table_name
             = Replace(Replace(Lower(C6_Stem[uploaded_file.name]), " ", "_"), "-", "_")
        /\ ingest.locals.db_filename = C6_Stem[uploaded_file.name] \o ".db"

\* C7: between one user upload and the next, ingestion and agent construction
\* happen once: when a run has ingested the uploaded file and built the
\* agent, a later run caused by a question, by Clear Conversation, by a
\* quick-action button or by st.rerun() ingests nothing, writes no store and
\* builds no agent.
C7_BoundOncePerUpload ==
    [][ (Ingested /\ agent # None
           /\ (QuickAction \/ ClearConversation \/ Ask \/ Rerun))
        => (ingest' = None /\ stores' = stores /\ agent' = agent) ]_vars

\* C8: ingesting a well-formed file with r data rows and c columns, whatever
\* its supported extension, gives a table of r rows and c columns, and the
\* preview df has those r rows and c columns too.
C8_RowsAndColumnsMatch ==
    Ingested =>
        /\ Len(IngestedTable.rows) = Len(uploaded_file.data.rows)
        /\ Len(IngestedTable.columns) = Len(uploaded_file.data.columns)
        /\ \A i \in 1..Len(IngestedTable.rows) :
             Len(IngestedTable.rows[i]) = Len(uploaded_file.data.columns)
        /\ Len(df.rows) = Len(IngestedTable.rows)
        /\ Len(df.columns) = Len(IngestedTable.columns)
C8_Witness ==
    /\ Ingested
    /\ uploaded_file.name = "stock.xls"
    /\ Len(IngestedTable.rows) = 1
    /\ Len(IngestedTable.columns) = 3
    /\ \E f \in DOMAIN stores : \E t \in DOMAIN stores[f] :
         Len(stores[f][t].rows) = 2 /\ Len(stores[f][t].columns) = 2

\* C9: a question turn of a bound session that fails appends exactly one
\* (question, "Error: ...") entry to chat_history and adds one to
\* question_counter, and leaves the earlier entries and db, df and agent
\* unchanged.
C9_FailedTurnLeavesSession ==
    [][ (agent # None /\ turn' # None /\ turn'.beh # "answer")
        => /\ Len(chat_history') = Len(chat_history) + 1
           /\ SubSeq(chat_history', 1, Len(chat_history)) = chat_history
           /\ Last(chat_history')[1] = turn'.question
           /\ SubSeq(Last(chat_history')[2], 1, 6) = "Error:"
           /\ question_counter' = question_counter + 1
           /\ db' = db
           /\ df' = df
           /\ agent' = agent ]_vars

\* C10: chat_history is the (question, answer) pairs processed since the last
\* Clear Conversation, in order: a run other than Clear Conversation keeps it
\* or appends one pair, Clear Conversation empties it, and Clear Conversation
\* leaves db, df, agent and question_counter unchanged.
C10_HistoryAndClear ==
    [][ /\ (ClearConversation
              => (/\ chat_history' = <<>>
                  /\ db' = db
                  /\ df' = df
                  /\ agent' = agent
                  /\ question_counter' = question_counter))
        /\ (~ClearConversation
              => (\/ chat_history' = chat_history
                  \/ (/\ Len(chat_history') = Len(chat_history) + 1
                      /\ SubSeq(chat_history', 1, Len(chat_history)) = chat_history
                      /\ turn' # None
                      /\ Last(chat_history') = <<turn'.question, turn'.answer.value>>)))
      ]_vars

====
